---- MODULE Spec2Model ----
(***************************************************************************)
(* Model of streamlitApp.py: document extraction, the upload handling of   *)
(* the script body, the generation client (GeminiAPI.generate_content)     *)
(* and the query callback (run_rag_query).                                 *)
(*                                                                         *)
(* Python strings are sequences of one-character strings, so that          *)
(* startswith, strip, lower and concatenation are computed, not assumed.   *)
(***************************************************************************)
EXTENDS Integers, Sequences, FiniteSets, TLC

VARIABLES
    PdfReader,          \* TRUE iff the pypdf import succeeded (lines 10-13)
    Document,           \* TRUE iff the python-docx import succeeded (lines 15-18)
    uploaded_file,      \* value of the st.file_uploader widget (NoFile = None)
    uploaded_text,      \* st.session_state.uploaded_text
    rag_response,       \* st.session_state.rag_response
    user_prompt_input,  \* st.session_state.user_prompt_input
    stage,              \* how far the last script run got
    surfaced,           \* the st.error / st.success / st.info of the upload handling
    message,            \* the st.error of the last run_rag_query, if any
    invoked,            \* the last run_rag_query called gemini_api.generate_content
    sent,               \* contents_payload of that call
    api,                \* what the SDK did during the last generate_content call
    result,             \* what the last generate_content call returned (or raised)
    prior,              \* rag_response as it was before the last step
    event               \* the last user action / harness step

vars == <<PdfReader, Document, uploaded_file, uploaded_text, rag_response,
          user_prompt_input, stage, surfaced, message, invoked, sent, api,
          result, prior, event>>

\* ---------------------------------------------------------------- bounds
MaxPad == 1      \* blanks on each side of a typed question
MaxCands == 2    \* candidates in a service response

\* --------------------------------------------------------------- strings
ErrorMarker ==
    <<"E","r","r","o","r",":">>
MsgNoPdf ==
    <<"E","r","r","o","r",":"," ","C","a","n","n","o","t"," ","r","e","a","d"," ","P","D","F","."," ","P","l","e","a","s","e"," ","i","n","s","t","a","l","l"," ","p","y","p","d","f",".">>
MsgNoDocx ==
    <<"E","r","r","o","r",":"," ","C","a","n","n","o","t"," ","r","e","a","d"," ","D","O","C","X","."," ","P","l","e","a","s","e"," ","i","n","s","t","a","l","l"," ","p","y","t","h","o","n","-","d","o","c","x",".">>
MsgUnsupported ==
    <<"E","r","r","o","r",":"," ","U","n","s","u","p","p","o","r","t","e","d"," ","f","i","l","e"," ","t","y","p","e",":"," ">>
MsgReadError ==
    <<"E","r","r","o","r"," ","r","e","a","d","i","n","g"," ","f","i","l","e"," ","c","o","n","t","e","n","t",":"," ">>
MsgApiError ==
    <<"E","r","r","o","r"," ","d","u","r","i","n","g"," ","l","i","v","e"," ","A","P","I"," ","c","a","l","l",":"," ","A"," ","G","e","m","i","n","i"," ","A","P","I"," ","e","r","r","o","r"," ","o","c","c","u","r","r","e","d","."," ","D","e","t","a","i","l","s",":"," ">>
MsgUnexpected ==
    <<"E","r","r","o","r"," ","d","u","r","i","n","g"," ","l","i","v","e"," ","A","P","I"," ","c","a","l","l",":"," ","A","n"," ","u","n","e","x","p","e","c","t","e","d"," ","e","r","r","o","r"," ","o","c","c","u","r","r","e","d","."," ","D","e","t","a","i","l","s",":"," ">>
MsgEnterQuestion ==
    <<"P","l","e","a","s","e"," ","e","n","t","e","r"," ","a"," ","q","u","e","s","t","i","o","n",".">>
MsgUploadFirst ==
    <<"P","l","e","a","s","e"," ","u","p","l","o","a","d"," ","a"," ","d","o","c","u","m","e","n","t"," ","f","i","r","s","t",".">>
MsgPleaseUpload ==
    <<"P","l","e","a","s","e"," ","u","p","l","o","a","d"," ","a"," ","s","u","p","p","o","r","t","e","d"," ","f","i","l","e"," ","t","y","p","e"," ","t","o"," ","e","n","a","b","l","e"," ","t","h","e"," ","Q","&","A"," ","s","e","c","t","i","o","n",".">>
MsgLoaded ==
    <<"l","o","a","d","e","d">>

\* str.startswith
startswith(s, p) ==
    Len(s) >= Len(p) /\ SubSeq(s, 1, Len(p)) = p

UpperLetters == <<"A","B","C","D","E","F","G","H","I","J","K","L","M","N","O","P","Q","R","S","T","U","V","W","X","Y","Z">>
LowerLetters == <<"a","b","c","d","e","f","g","h","i","j","k","l","m","n","o","p","q","r","s","t","u","v","w","x","y","z">>

\* str.lower
lower(s) ==
    [i \in 1..Len(s) |->
        IF \E k \in 1..26 : UpperLetters[k] = s[i]
        THEN LowerLetters[CHOOSE k \in 1..26 : UpperLetters[k] = s[i]]
        ELSE s[i]]

Whitespace == {" ", "\n", "\t"}

\* str.strip
RECURSIVE lstrip(_)
lstrip(s) ==
    IF s # <<>> /\ Head(s) \in Whitespace THEN lstrip(Tail(s)) ELSE s

RECURSIVE rstrip(_)
rstrip(s) ==
    IF s # <<>> /\ s[Len(s)] \in Whitespace
    THEN rstrip(SubSeq(s, 1, Len(s) - 1)) ELSE s

strip(s) == rstrip(lstrip(s))

\* os.path.splitext(name)[1] for a name without directory separators: the
\* suffix from the last dot, unless that dot is preceded by dots only.
splitext(name) ==
    LET dots == {i \in 1..Len(name) : name[i] = "."}
        d == IF dots = {} THEN 0 ELSE CHOOSE i \in dots : \A j \in dots : j <= i
    IN IF d = 0 \/ (\A i \in 1..(d - 1) : name[i] = ".")
       THEN <<>>
       ELSE SubSeq(name, d, Len(name))

\* sequences over S of length 0..n
RECURSIVE SeqsUpTo(_, _)
SeqsUpTo(S, n) ==
    IF n = 0 THEN {<<>>}
    ELSE LET shorter == SeqsUpTo(S, n - 1)
         IN shorter \cup {Append(s, x) : s \in {t \in shorter : Len(t) = n - 1}, x \in S}

RECURSIVE Blanks(_)
Blanks(n) == IF n = 0 THEN <<>> ELSE <<" ">> \o Blanks(n - 1)

\* ---------------------------------------------------------- Python values
\* A value returned by the SDK or by a parser: a str, None, an empty list, an
\* object, or an object whose __str__ raises.
StrV(s) == [t |-> "str", s |-> s]
NoneV == [t |-> "None", s |-> <<>>]
EmptyListV == [t |-> "list", s |-> <<"[","]">>]
ObjV == [t |-> "object", s |-> <<"<","o",">">>]
BadV == [t |-> "unprintable", s |-> <<>>]

\* bool(v)
Truthy(v) ==
    CASE v.t = "str" -> v.s # <<>>
      [] v.t = "None" -> FALSE
      [] v.t = "list" -> FALSE
      [] OTHER -> TRUE

\* str(v): raises for an unprintable object
pystr(v) ==
    CASE v.t = "None" -> [raised |-> FALSE, s |-> <<"N","o","n","e">>]
      [] v.t = "unprintable" -> [raised |-> TRUE, s |-> <<>>]
      [] OTHER -> [raised |-> FALSE, s |-> v.s]

\* ----------------------------------------------------- uploaded documents
\* An uploaded file is its name and its bytes; the bytes are described by
\* what the parsers make of them: UTF-8 text, a PDF with pages (each page's
\* extract_text() result), a DOCX with paragraphs, or bytes no parser accepts.
NoFile == [held |-> FALSE]
File(name, bytes) == [held |-> TRUE, name |-> name, bytes |-> bytes]
Utf8Bytes(text) == [format |-> "utf8", text |-> text, units |-> <<>>]
PdfBytes(pages) == [format |-> "pdf", text |-> <<>>, units |-> pages]
DocxBytes(paragraphs) == [format |-> "docx", text |-> <<>>, units |-> paragraphs]
JunkBytes == [format |-> "junk", text |-> <<>>, units |-> <<>>]

\* str(e) of the exception a decoder or parser raises
ParseDetails == <<"b","a","d">>

ExtTxt == <<".","t","x","t">>
ExtMd == <<".","m","d">>
ExtPdf == <<".","p","d","f">>
ExtDocx == <<".","d","o","c","x">>

\* text += page.extract_text() or "" over reader.pages
RECURSIVE PdfText(_)
PdfText(pages) ==
    IF pages = <<>> THEN <<>>
    ELSE (IF Truthy(Head(pages)) THEN Head(pages).s ELSE <<>>) \o PdfText(Tail(pages))

\* "\n".join([paragraph.text for paragraph in doc.paragraphs])
RECURSIVE DocxText(_)
DocxText(paragraphs) ==
    IF paragraphs = <<>> THEN <<>>
    ELSE IF Len(paragraphs) = 1 THEN Head(paragraphs)
    ELSE Head(paragraphs) \o <<"\n">> \o DocxText(Tail(paragraphs))

\* the branch of read_document_content that produces the return value
ExtractionKind(file) ==
    LET file_extension == lower(splitext(file.name))
    IN CASE file_extension \in {ExtTxt, ExtMd} ->
              IF file.bytes.format = "utf8" THEN "Text" ELSE "ParseError"
         [] file_extension = ExtPdf ->
              IF ~PdfReader THEN "MissingDependency"
              ELSE IF file.bytes.format = "pdf" THEN "Text" ELSE "ParseError"
         [] file_extension = ExtDocx ->
              IF ~Document THEN "MissingDependency"
              ELSE IF file.bytes.format = "docx" THEN "Text" ELSE "ParseError"
         [] OTHER -> "UnsupportedType"

read_document_content(file) ==
    LET file_extension == lower(splitext(file.name))
    IN CASE file_extension \in {ExtTxt, ExtMd} ->
              IF file.bytes.format = "utf8" THEN file.bytes.text
              ELSE MsgReadError \o ParseDetails
         [] file_extension = ExtPdf ->
              IF ~PdfReader THEN MsgNoPdf
              ELSE IF file.bytes.format = "pdf" THEN PdfText(file.bytes.units)
              ELSE MsgReadError \o ParseDetails
         [] file_extension = ExtDocx ->
              IF ~Document THEN MsgNoDocx
              ELSE IF file.bytes.format = "docx" THEN DocxText(file.bytes.units)
              ELSE MsgReadError \o ParseDetails
         [] OTHER -> MsgUnsupported \o file_extension

\* st.file_uploader(type=["txt", "md", "pdf", "docx"]): the widget accepts a
\* file only if its extension is one of the listed types.
UploaderAccepts(name) ==
    lower(splitext(name)) \in {ExtTxt, ExtMd, ExtPdf, ExtDocx}

Msg(kind, text) == [kind |-> kind, text |-> text]

\* lines 143-168 of the script body: what a script run leaves in
\* uploaded_text, what it shows, and whether it reaches the Q&A section.
UploadHandling(file, text) ==
    LET file_contents == read_document_content(file)
        failed == file.held /\ startswith(file_contents, ErrorMarker)
        newText == IF ~file.held THEN text
                   ELSE IF failed THEN <<>> ELSE file_contents
        shown == IF ~file.held THEN <<>>
                 ELSE IF failed THEN <<Msg("error", file_contents)>>
                 ELSE <<Msg("success", MsgLoaded)>>
    IN IF failed
       THEN [uploaded_text |-> newText, surfaced |-> shown, stage |-> "stopped"]
       ELSE IF newText = <<>>
       THEN [uploaded_text |-> newText,
             surfaced |-> Append(shown, Msg("info", MsgPleaseUpload)),
             stage |-> "stopped"]
       ELSE [uploaded_text |-> newText, surfaced |-> shown, stage |-> "query"]

\* ------------------------------------------------------ generation client
\* What the SDK does during one generate_content call: whether
\* genai.Client(...), GenerateContentConfig(...) and
\* client.models.generate_content(...) return ("ok") or raise ("APIError",
\* "Exception"), and the response object the service call returns.
\*   response.candidates: "absent" (no attribute), "None", "list" (items),
\*       or "opaque" (a truthy object that cannot be indexed);
\*   a field is [has, val];  printable: str(response) returns.
Field(v) == [has |-> TRUE, val |-> v]
Absent == [has |-> FALSE, val |-> NoneV]
Candidate(content, output) == [content |-> content, output |-> output]
Candidates(kind, items) == [kind |-> kind, items |-> items]
Response(candidates, text, printable) ==
    [candidates |-> candidates, text |-> text, printable |-> printable]
Sdk(client, config, call, response) ==
    [client |-> client, config |-> config, call |-> call, response |-> response]

\* str(response)
ReprText == <<"<","r","e","s","p",">">>
\* str(e) of an exception raised inside generate_content
ApiDetails == <<"4","2","9">>
ExcDetails == <<"b","o","o","m">>

Returned(v) == [raised |-> FALSE, value |-> v]
NoResult == [raised |-> FALSE, value |-> NoneV]

\* Variants of Probe with a plausible slip: the top-level text field probed
\* before the candidates; the output step left out.
Probe_TextFirst(response) ==
    LET c == response.candidates
    IN IF response.text.has
       THEN [kind |-> "return", value |-> response.text.val]
       ELSE IF c.kind = "opaque"
       THEN [kind |-> "exception", value |-> NoneV]
       ELSE IF c.kind = "list" /\ c.items # <<>> /\ c.items[1].content.has
       THEN [kind |-> "return", value |-> c.items[1].content.val]
       ELSE [kind |-> "none", value |-> NoneV]

Probe_NoOutput(response) ==
    LET c == response.candidates
    IN IF c.kind = "opaque"
       THEN [kind |-> "exception", value |-> NoneV]
       ELSE IF c.kind = "list" /\ c.items # <<>> /\ c.items[1].content.has
       THEN [kind |-> "return", value |-> c.items[1].content.val]
       ELSE IF response.text.has
       THEN [kind |-> "return", value |-> response.text.val]
       ELSE [kind |-> "none", value |-> NoneV]

\* lines 90-103: the guarded probing of the response shape.
\*   "return" v: a return statement inside the inner try ran;
\*   "exception": the inner except swallowed an exception;
\*   "none": no shape matched.
Probe(response) ==
    LET c == response.candidates
        textStep == IF response.text.has
                    THEN [kind |-> "return", value |-> response.text.val]
                    ELSE [kind |-> "none", value |-> NoneV]
    IN IF c.kind = "opaque"
       THEN [kind |-> "exception", value |-> NoneV]
       ELSE IF c.kind = "list" /\ c.items # <<>>
       THEN LET first == c.items[1]
            IN IF first.content.has
               THEN [kind |-> "return", value |-> first.content.val]
               ELSE IF first.output.has /\ Truthy(first.output.val)
               THEN IF pystr(first.output.val).raised
                    THEN [kind |-> "exception", value |-> NoneV]
                    ELSE [kind |-> "return", value |-> StrV(pystr(first.output.val).s)]
               ELSE textStep
       ELSE textStep

\* the first SDK step that raises, if any
FirstRaise(sdk) ==
    IF sdk.client # "ok" THEN sdk.client
    ELSE IF sdk.config # "ok" THEN sdk.config
    ELSE IF sdk.call # "ok" THEN sdk.call
    ELSE "ok"

\* Variant of generate_content whose handlers are in the wrong order: the
\* catch-all handler comes first and takes the APIError too.
generate_content_CatchAllFirst(sdk) ==
    LET raisedBySdk == FirstRaise(sdk)
        p == Probe(sdk.response)
    IN IF raisedBySdk # "ok"
       THEN Returned(StrV(MsgUnexpected \o ExcDetails))
       ELSE IF p.kind = "return"
       THEN Returned(p.value)
       ELSE IF sdk.response.printable
       THEN Returned(StrV(ReprText))
       ELSE Returned(StrV(MsgUnexpected \o ExcDetails))

\* GeminiAPI.generate_content (lines 72-111)
generate_content(sdk) ==
    LET raisedBySdk == FirstRaise(sdk)
        p == Probe(sdk.response)
    IN IF raisedBySdk = "APIError"
       THEN Returned(StrV(MsgApiError \o ApiDetails))
       ELSE IF raisedBySdk = "Exception"
       THEN Returned(StrV(MsgUnexpected \o ExcDetails))
       ELSE IF p.kind = "return"
       THEN Returned(p.value)
       ELSE IF sdk.response.printable
       THEN Returned(StrV(ReprText))
       ELSE Returned(StrV(MsgUnexpected \o ExcDetails))

\* ----------------------------------------------------------- orchestrator
NoExchange == [set |-> FALSE, prompt |-> <<>>, answer |-> NoneV]
Exchange(prompt, answer) == [set |-> TRUE, prompt |-> prompt, answer |-> answer]

\* Variants of run_rag_query with a plausible slip.
\* The document check of lines 192-194 left out:
run_rag_query_NoDocumentCheck(sdk) ==
    LET current_prompt == strip(user_prompt_input)
        response_text == generate_content(sdk)
    IN IF current_prompt = <<>>
       THEN [rag_response |-> rag_response, uploaded_text |-> uploaded_text,
             message |-> <<Msg("error", MsgEnterQuestion)>>,
             invoked |-> FALSE, sent |-> <<>>, result |-> NoResult]
       ELSE [rag_response |->
                 Exchange(current_prompt,
                          IF response_text.raised THEN NoneV ELSE response_text.value),
             uploaded_text |-> uploaded_text,
             message |-> <<>>,
             invoked |-> TRUE,
             sent |-> <<uploaded_text, current_prompt>>,
             result |-> response_text]

\* Only the answer written into an exchange that already exists (the prompt of
\* the earlier question kept):
run_rag_query_KeepsPrompt(sdk) ==
    LET current_prompt == strip(user_prompt_input)
        response_text == generate_content(sdk)
    IN IF current_prompt = <<>>
       THEN [rag_response |-> rag_response, uploaded_text |-> uploaded_text,
             message |-> <<Msg("error", MsgEnterQuestion)>>,
             invoked |-> FALSE, sent |-> <<>>, result |-> NoResult]
       ELSE IF uploaded_text = <<>>
       THEN [rag_response |-> rag_response, uploaded_text |-> uploaded_text,
             message |-> <<Msg("error", MsgUploadFirst)>>,
             invoked |-> FALSE, sent |-> <<>>, result |-> NoResult]
       ELSE [rag_response |->
                 Exchange(IF rag_response.set THEN rag_response.prompt ELSE current_prompt,
                          IF response_text.raised THEN NoneV ELSE response_text.value),
             uploaded_text |-> uploaded_text,
             message |-> <<>>,
             invoked |-> TRUE,
             sent |-> <<uploaded_text, current_prompt>>,
             result |-> response_text]

\* The new exchange of line 196 created before the document check:
run_rag_query_EarlyExchange(sdk) ==
    LET current_prompt == strip(user_prompt_input)
        response_text == generate_content(sdk)
    IN IF current_prompt = <<>>
       THEN [rag_response |-> rag_response, uploaded_text |-> uploaded_text,
             message |-> <<Msg("error", MsgEnterQuestion)>>,
             invoked |-> FALSE, sent |-> <<>>, result |-> NoResult]
       ELSE IF uploaded_text = <<>>
       THEN [rag_response |-> Exchange(current_prompt, NoneV),
             uploaded_text |-> uploaded_text,
             message |-> <<Msg("error", MsgUploadFirst)>>,
             invoked |-> FALSE, sent |-> <<>>, result |-> NoResult]
       ELSE [rag_response |->
                 Exchange(current_prompt,
                          IF response_text.raised THEN NoneV ELSE response_text.value),
             uploaded_text |-> uploaded_text,
             message |-> <<>>,
             invoked |-> TRUE,
             sent |-> <<uploaded_text, current_prompt>>,
             result |-> response_text]

\* run_rag_query (lines 185-217), reading the session state; the record
\* holds the session state it leaves and what it did.
run_rag_query(sdk) ==
    LET current_prompt == strip(user_prompt_input)
        response_text == generate_content(sdk)
    IN IF current_prompt = <<>>
       THEN [rag_response |-> rag_response, uploaded_text |-> uploaded_text,
             message |-> <<Msg("error", MsgEnterQuestion)>>,
             invoked |-> FALSE, sent |-> <<>>, result |-> NoResult]
       ELSE IF uploaded_text = <<>>
       THEN [rag_response |-> rag_response, uploaded_text |-> uploaded_text,
             message |-> <<Msg("error", MsgUploadFirst)>>,
             invoked |-> FALSE, sent |-> <<>>, result |-> NoResult]
       ELSE [rag_response |->
                 Exchange(current_prompt,
                          IF response_text.raised THEN NoneV ELSE response_text.value),
             uploaded_text |-> uploaded_text,
             message |-> <<>>,
             invoked |-> TRUE,
             sent |-> <<uploaded_text, current_prompt>>,
             result |-> response_text]

\* lines 223-230: the exchange is displayed only if it has a truthy answer
ResponseDisplayed(exchange) ==
    exchange.set /\ Truthy(exchange.answer)

\* ----------------------------------------------------------------- inputs
TxtPlain == <<"h","i">>
TxtErrorLike == ErrorMarker \o <<" ","h","i">>

NameTxt == <<"a",".","t","x","t">>
NameMd == <<"n",".","M","D">>
NamePdf == <<"a",".","b",".","p","d","f">>
NameDocx == <<"a",".","D","o","c","x">>
NameCsv == <<"a",".","c","s","v">>
NameHidden == <<".","t","x","t">>

\* the files a user may try to put into the uploader
Files ==
    {File(NameTxt, b) : b \in {Utf8Bytes(TxtPlain), Utf8Bytes(TxtErrorLike), JunkBytes}}
    \cup {File(NameMd, b) : b \in {Utf8Bytes(<<>>), Utf8Bytes(TxtPlain)}}
    \cup {File(NamePdf, b) :
            b \in {PdfBytes(<<NoneV, StrV(TxtPlain)>>),
                   PdfBytes(<<StrV(ErrorMarker), StrV(TxtPlain)>>), JunkBytes}}
    \cup {File(NameDocx, b) :
            b \in {DocxBytes(<<TxtPlain, TxtPlain>>),
                   DocxBytes(<<ErrorMarker, TxtPlain>>), JunkBytes}}
    \cup {File(n, Utf8Bytes(TxtPlain)) : n \in {NameCsv, NameHidden}}

QuestionCores == {<<>>, <<"w","h","y">>, <<"a"," ","b">>}

\* what a user may type into the text area
Questions ==
    {Blanks(i) \o core \o Blanks(j) : core \in QuestionCores, i \in 0..MaxPad, j \in 0..MaxPad}

SdkOutcomes == {"ok", "APIError", "Exception"}
ContentFields == {Absent, Field(StrV(<<>>)), Field(StrV(<<"B","l","u","e",".">>)), Field(NoneV), Field(ObjV)}
OutputFields == {Absent, Field(StrV(<<>>)), Field(StrV(<<"O","u","t">>)), Field(NoneV),
                 Field(EmptyListV), Field(ObjV), Field(BadV)}
TextFields == {Absent, Field(StrV(<<"T">>)), Field(NoneV)}
FirstCandidates == {Candidate(c, o) : c \in ContentFields, o \in OutputFields}
LaterCandidates == {Candidate(Field(StrV(<<"2","n","d">>)), Absent),
                    Candidate(Absent, Field(StrV(<<"2","n","d">>)))}

CandidateLists ==
    {<<>>} \cup {<<f>> \o rest : f \in FirstCandidates,
                                rest \in SeqsUpTo(LaterCandidates, MaxCands - 1)}

Responses ==
    {Response(c, t, p) :
        c \in {Candidates("absent", <<>>), Candidates("None", <<>>), Candidates("opaque", <<>>)}
              \cup {Candidates("list", l) : l \in CandidateLists},
        t \in TextFields, p \in BOOLEAN}

BlueResponse ==
    Response(Candidates("list", <<Candidate(Field(StrV(<<"B","l","u","e",".">>)), Absent)>>),
             Absent, TRUE)

\* SDK behaviours: every response shape when nothing raises, and each single
\* raising step (the later steps are then never reached).
Sdks ==
    {Sdk("ok", "ok", "ok", r) : r \in Responses}
    \cup {Sdk(x, "ok", "ok", BlueResponse) : x \in SdkOutcomes \ {"ok"}}
    \cup {Sdk("ok", x, "ok", BlueResponse) : x \in SdkOutcomes \ {"ok"}}
    \cup {Sdk("ok", "ok", x, BlueResponse) : x \in SdkOutcomes \ {"ok"}}

\* the SDK behaviours exercised in whole sessions
SessionSdks ==
    {Sdk("ok", "ok", x, BlueResponse) : x \in SdkOutcomes}
    \cup {Sdk("ok", "ok", "ok",
              Response(Candidates("list", <<Candidate(Field(NoneV), Absent)>>), Absent, TRUE)),
          Sdk("ok", "ok", "ok", Response(Candidates("absent", <<>>), Absent, FALSE))}

NoSdk == Sdk("ok", "ok", "ok", BlueResponse)

\* ---------------------------------------------------------------- session
\* State after the first script run of a fresh session: no file, the session
\* defaults of lines 126-133, and the run stopped at line 168.
Init ==
    /\ PdfReader \in BOOLEAN
    /\ Document \in BOOLEAN
    /\ uploaded_file = NoFile
    /\ uploaded_text = <<>>
    /\ rag_response = NoExchange
    /\ user_prompt_input = <<>>
    /\ stage = "stopped"
    /\ surfaced = <<Msg("info", MsgPleaseUpload)>>
    /\ message = <<>>
    /\ invoked = FALSE
    /\ sent = <<>>
    /\ api = NoSdk
    /\ result = NoResult
    /\ prior = NoExchange
    /\ event = "start"

\* the script body rerun after a widget change, with no callback
Rerun(file, name) ==
    LET run == UploadHandling(file, uploaded_text)
    IN /\ uploaded_text' = run.uploaded_text
       /\ surfaced' = run.surfaced
       /\ stage' = run.stage
       /\ message' = <<>>
       /\ invoked' = FALSE
       /\ sent' = <<>>
       /\ api' = NoSdk
       /\ result' = NoResult
       /\ prior' = rag_response
       /\ event' = name
       /\ UNCHANGED <<PdfReader, Document, rag_response>>

\* the user puts a file into the uploader
Upload ==
    \E f \in Files :
        /\ UploaderAccepts(f.name)
        /\ uploaded_file' = f
        /\ Rerun(f, "upload")
        /\ UNCHANGED user_prompt_input

\* the user removes the file from the uploader
RemoveFile ==
    /\ uploaded_file.held
    /\ uploaded_file' = NoFile
    /\ Rerun(NoFile, "remove")
    /\ UNCHANGED user_prompt_input

\* the user edits the text area (rendered only when the Q&A section is)
TypeQuestion ==
    \E q \in Questions :
        /\ stage = "query"
        /\ q # user_prompt_input
        /\ user_prompt_input' = q
        /\ Rerun(uploaded_file, "type")
        /\ UNCHANGED uploaded_file

\* the user clicks "Get Grounded Answer": the on_click callback
\* run_rag_query runs first, then the script body reruns.
ClickButton ==
    \E sdk \in SessionSdks :
        LET q == run_rag_query(sdk)
            run == UploadHandling(uploaded_file, q.uploaded_text)
        IN /\ stage = "query"
           /\ rag_response' = q.rag_response
           /\ message' = q.message
           /\ invoked' = q.invoked
           /\ sent' = q.sent
           /\ result' = q.result
           /\ api' = IF q.invoked THEN sdk ELSE NoSdk
           /\ uploaded_text' = run.uploaded_text
           /\ surfaced' = run.surfaced
           /\ stage' = run.stage
           /\ prior' = rag_response
           /\ event' = "click"
           /\ UNCHANGED <<PdfReader, Document, uploaded_file, user_prompt_input>>

Next == Upload \/ RemoveFile \/ TypeQuestion \/ ClickButton

Spec == Init /\ [][Next]_vars

\* ------------------------------------------- generate_content on its own
\* Every SDK behaviour of Sdks, and one call of generate_content on it.
InitGen ==
    /\ PdfReader = TRUE
    /\ Document = TRUE
    /\ uploaded_file = NoFile
    /\ uploaded_text = <<>>
    /\ rag_response = NoExchange
    /\ user_prompt_input = <<>>
    /\ stage = "stopped"
    /\ surfaced = <<>>
    /\ message = <<>>
    /\ invoked = FALSE
    /\ sent = <<>>
    /\ api \in Sdks
    /\ result = NoResult
    /\ prior = NoExchange
    /\ event = "given"

GenerateContent ==
    /\ event = "given"
    /\ result' = generate_content(api)
    /\ event' = "call"
    /\ UNCHANGED <<PdfReader, Document, uploaded_file, uploaded_text, rag_response,
                   user_prompt_input, stage, surfaced, message, invoked, sent, api, prior>>

NextGen == GenerateContent

SpecGen == InitGen /\ [][NextGen]_vars

\* ---------------------------------------------- run_rag_query on its own
\* The callback applied to any session state: any document context
\* (including the empty one), any typed question, with or without an
\* exchange held.
OldExchange == Exchange(<<"o","l","d">>, StrV(<<"O","l","d",".">>))

InitOrch ==
    /\ PdfReader = TRUE
    /\ Document = TRUE
    /\ uploaded_file = NoFile
    /\ uploaded_text \in {<<>>, TxtPlain, TxtErrorLike}
    /\ rag_response \in {NoExchange, OldExchange}
    /\ user_prompt_input \in Questions
    /\ stage = "query"
    /\ surfaced = <<>>
    /\ message = <<>>
    /\ invoked = FALSE
    /\ sent = <<>>
    /\ api = NoSdk
    /\ result = NoResult
    /\ prior = rag_response
    /\ event = "given"

Submit ==
    \E sdk \in SessionSdks :
        LET q == run_rag_query(sdk)
        IN /\ rag_response' = q.rag_response
           /\ uploaded_text' = q.uploaded_text
           /\ message' = q.message
           /\ invoked' = q.invoked
           /\ sent' = q.sent
           /\ result' = q.result
           /\ api' = IF q.invoked THEN sdk ELSE NoSdk
           /\ prior' = rag_response
           /\ event' = "click"
           /\ UNCHANGED <<PdfReader, Document, uploaded_file, user_prompt_input,
                          stage, surfaced>>

Retype ==
    \E q \in Questions :
        /\ q # user_prompt_input
        /\ user_prompt_input' = q
        /\ message' = <<>>
        /\ invoked' = FALSE
        /\ sent' = <<>>
        /\ result' = NoResult
        /\ api' = NoSdk
        /\ prior' = rag_response
        /\ event' = "type"
        /\ UNCHANGED <<PdfReader, Document, uploaded_file, uploaded_text, rag_response,
                       stage, surfaced>>

NextOrch == Submit \/ Retype

SpecOrch == InitOrch /\ [][NextOrch]_vars

\* ------------------------------------------------------------- properties
ExtractionFailed(file) == file.held /\ ExtractionKind(file) # "Text"
ErrorSurfaced == \E i \in 1..Len(surfaced) : surfaced[i].kind = "error"
GeminiError == StrV(MsgApiError \o ApiDetails)
UnexpectedError == StrV(MsgUnexpected \o ExcDetails)
AllOk(sdk) == FirstRaise(sdk) = "ok"
ProbingRaises(sdk) == AllOk(sdk) /\ Probe(sdk.response).kind = "exception"
ReprRaises(sdk) ==
    AllOk(sdk) /\ Probe(sdk.response).kind # "return" /\ ~sdk.response.printable
HasFirst(response) ==
    response.candidates.kind = "list" /\ response.candidates.items # <<>>
FirstOf(response) == response.candidates.items[1]
Rejected == strip(user_prompt_input) = <<>> \/ uploaded_text = <<>>

\* C1 (as claimed): whenever the uploader holds a file whose extraction
\* failed (unsupported type, missing dependency or parse error), an error
\* is surfaced, the document context is empty, the run stopped before the
\* query stage, and no query was answered.
C1_FailureBlocksQuery ==
    ExtractionFailed(uploaded_file) =>
        /\ ErrorSurfaced
        /\ uploaded_text = <<>>
        /\ stage = "stopped"
        /\ ~invoked

\* C2 (as claimed): a query that reaches the generation client sends the
\* document context current at the submission; once the uploader no longer
\* holds a file, a submitted query is refused with a message and the
\* generation client is not called; and after a failed upload the
\* generation client is not called with text extracted earlier.
C2_NoAnswerFromStaleText ==
    event = "click" =>
        /\ invoked => sent = <<uploaded_text, strip(user_prompt_input)>>
        /\ ~uploaded_file.held => (~invoked /\ message # <<>>)
        /\ (ExtractionFailed(uploaded_file) /\ invoked) =>
              sent[1] = read_document_content(uploaded_file)

\* C3 (as claimed): whatever response object the service returns,
\* generate_content returns a string and raises nothing.
C3_ReturnsString ==
    event = "call" => (~result.raised /\ result.value.t = "str")

\* C4 (as claimed): generate_content never raises; an APIError from the
\* service call gives the "A Gemini API error occurred" string; any other
\* exception, raised by client construction, config construction, the
\* service call or normalization, gives the "An unexpected error occurred"
\* string; every call returns a normalized answer or one of the two.
C4_EveryExceptionBecomesErrorString ==
    event = "call" =>
        /\ ~result.raised
        /\ (api.client = "ok" /\ api.config = "ok" /\ api.call = "APIError")
              => result.value = GeminiError
        /\ (FirstRaise(api) = "Exception" \/ ProbingRaises(api) \/ ReprRaises(api))
              => result.value = UnexpectedError
        /\ \/ result.value \in {GeminiError, UnexpectedError}
           \/ AllOk(api) /\ Probe(api.response).kind = "return"
                 /\ result.value = Probe(api.response).value
           \/ AllOk(api) /\ result.value = StrV(ReprText)

\* C4 (amended): generate_content never raises; an APIError from the service
\* call gives the "A Gemini API error occurred" string; any other exception
\* raised by client construction, config construction, the service call or
\* the final str(response) gives the "An unexpected error occurred" string;
\* an exception raised while probing the response shape is swallowed and
\* the call goes on to str(response); every call returns a normalized
\* answer or one of the two error strings.
C4_EscapingExceptionBecomesErrorString ==
    event = "call" =>
        /\ ~result.raised
        /\ (api.client = "ok" /\ api.config = "ok" /\ api.call = "APIError")
              => result.value = GeminiError
        /\ (FirstRaise(api) = "Exception" \/ ReprRaises(api))
              => result.value = UnexpectedError
        /\ (ProbingRaises(api) /\ api.response.printable)
              => result.value = StrV(ReprText)
        /\ \/ result.value \in {GeminiError, UnexpectedError}
           \/ AllOk(api) /\ Probe(api.response).kind = "return"
                 /\ result.value = Probe(api.response).value
           \/ AllOk(api) /\ result.value = StrV(ReprText)

\* a call in which probing raised and str(response) was returned
C4_Witness ==
    /\ event = "call"
    /\ ProbingRaises(api)
    /\ api.response.printable
    /\ result = Returned(StrV(ReprText))

\* C5: a submission whose question is empty after trimming, or whose
\* document context is empty, produces a validation message and does not
\* call the generation client (nothing is sent).
C5_RejectedWithoutCall ==
    (event = "click" /\ Rejected) =>
        /\ message # <<>>
        /\ message[1].kind = "error"
        /\ ~invoked
        /\ sent = <<>>

\* a whitespace-only question submitted against a non-empty document
C5_Witness ==
    /\ event = "click"
    /\ user_prompt_input # <<>>
    /\ strip(user_prompt_input) = <<>>
    /\ uploaded_text # <<>>
    /\ message = <<Msg("error", MsgEnterQuestion)>>

\* C6: when the response has a first candidate with a content field and
\* also a top-level text field, the first candidate's content is returned;
\* and the text field's value is returned only when the candidate path
\* yields nothing (no first candidate, or one with neither a content field
\* nor a truthy output).
C6_CandidateBeforeText ==
    (event = "call" /\ AllOk(api)) =>
        /\ (HasFirst(api.response) /\ FirstOf(api.response).content.has
               /\ api.response.text.has)
              => result = Returned(FirstOf(api.response).content.val)
        /\ (api.response.text = Field(StrV(<<"T">>)) /\ result.value = StrV(<<"T">>))
              => \/ ~HasFirst(api.response)
                 \/ /\ ~FirstOf(api.response).content.has
                    /\ ~(FirstOf(api.response).output.has
                         /\ Truthy(FirstOf(api.response).output.val))

\* a response with both, differing, where the content was returned
C6_Witness ==
    /\ event = "call"
    /\ AllOk(api)
    /\ HasFirst(api.response)
    /\ FirstOf(api.response).content = Field(StrV(<<"B","l","u","e",".">>))
    /\ api.response.text = Field(StrV(<<"T">>))
    /\ result = Returned(StrV(<<"B","l","u","e",".">>))

\* C7 (as claimed): a well-formed file of a supported type (parser
\* available) is a success whatever its text: the full text becomes the
\* document context and no error is shown.
C7_WellFormedIsSuccess ==
    (uploaded_file.held /\ ExtractionKind(uploaded_file) = "Text") =>
        /\ uploaded_text = read_document_content(uploaded_file)
        /\ ~ErrorSurfaced

\* C8: after a query that passed validation, the one exchange held is the
\* trimmed question with exactly what the generation client returned,
\* whatever exchange was held before.
C8_LatestExchangeOnly ==
    (event = "click" /\ invoked) =>
        /\ ~result.raised
        /\ rag_response = Exchange(strip(user_prompt_input), result.value)

\* a query that replaced an earlier, different exchange by an error answer
C8_Witness ==
    /\ event = "click"
    /\ invoked
    /\ prior.set
    /\ prior # rag_response
    /\ result.value = GeminiError
    /\ rag_response.answer = GeminiError

\* C9 (as claimed): when the first candidate has no content field but has
\* an output field, whatever its value, str(output) is returned, also when
\* there is a top-level text field.
C9_AnyOutputReturned ==
    (event = "call" /\ AllOk(api) /\ HasFirst(api.response)
        /\ ~FirstOf(api.response).content.has /\ FirstOf(api.response).output.has)
    => result = Returned(StrV(pystr(FirstOf(api.response).output.val).s))

\* C9 (amended): when the first candidate has no content field but has an
\* output field whose value is truthy and whose str() succeeds, str(output)
\* is returned, also when there is a top-level text field.
C9_TruthyOutputReturned ==
    (event = "call" /\ AllOk(api) /\ HasFirst(api.response)
        /\ ~FirstOf(api.response).content.has /\ FirstOf(api.response).output.has
        /\ Truthy(FirstOf(api.response).output.val)
        /\ ~pystr(FirstOf(api.response).output.val).raised)
    => result = Returned(StrV(pystr(FirstOf(api.response).output.val).s))

\* a truthy output returned although a text field was there
C9_Witness ==
    /\ event = "call"
    /\ AllOk(api)
    /\ HasFirst(api.response)
    /\ ~FirstOf(api.response).content.has
    /\ FirstOf(api.response).output = Field(ObjV)
    /\ api.response.text = Field(StrV(<<"T">>))
    /\ result = Returned(StrV(ObjV.s))

\* C10: a submission rejected at validation (blank question or empty
\* document context) only produces a validation message: the exchange held
\* and the document context stay as they were.
C10_RejectedChangesNothing ==
    [][(event' = "click" /\ Rejected) =>
          /\ rag_response' = rag_response
          /\ uploaded_text' = uploaded_text
          /\ message' # <<>>
          /\ ~invoked']_vars

\* a rejected submission with an empty document after which the earlier
\* exchange is still held
C10_Witness ==
    /\ event = "click"
    /\ uploaded_text = <<>>
    /\ strip(user_prompt_input) # <<>>
    /\ message = <<Msg("error", MsgUploadFirst)>>
    /\ rag_response = OldExchange
    /\ prior = OldExchange
====
